---- MODULE Spec2Model ----
(***************************************************************************)
(* Model of the dual TypeScript language service host of vetur's          *)
(* template-interpolation support:                                        *)
(*   VueFileInfoManager            (src/unnamed/part_001)                  *)
(*   VueTypescriptLanguageService  (src/unnamed/part_002)                  *)
(*   createLanguageServiceHost     (vueTypescriptLanguageServiceHost.ts)   *)
(*   VueInterpolationMode          (src/unnamed/part_000)                  *)
(*                                                                         *)
(* Paths and uris are sequences of tokens, so that string concatenation   *)
(* (uri + '.template') and endsWith are computed, not assumed.             *)
(*                                                                         *)
(* updateCurrentTextDocument names versions, scriptDocs, files,            *)
(* currentScriptDoc and jsLanguageService without `this.`; they are read   *)
(* as the members and locals of the same names.  None of them is the       *)
(* registry of VueFileInfoManager, which only addScript writes.            *)
(***************************************************************************)
EXTENDS Integers, Sequences, FiniteSets, TLC

VARIABLES
  sharedFileInfoMap,              \* VueFileInfoManager: .vue and .vue.ts files (and the bridge)
  virtualVueTemplateFileInfoMap,  \* VueFileInfoManager: .vue.template files
  versions,                       \* VueTypescriptLanguageService.versions: path -> number
  scriptDocs,                     \* VueTypescriptLanguageService.scriptDocs: path -> TextDocument
  files,                          \* the paths updateCurrentTextDocument pushes (order abstracted)
  currentScriptDoc,               \* the script document of the last script update
  jsLanguageService,              \* identity of the script engine instance
  config,                         \* VueInterpolationMode.config, the flag's value
  pc,                             \* position inside the running request; "done": returned
  request,                        \* the running (or last) VueInterpolationMode request
  engineLog,                      \* the templateService queries of that request
  result,                         \* what that request returned
  engineAnswer,                   \* what templateService answered to that request
  lastUpdate,                     \* path -> document of the last updateCurrentTextDocument call
  lastCall,                       \* the last call on the registry or the host, and its result
  disk,                           \* the files tsModule.sys reads: path -> text
  resolveLog,                     \* the tsModule.resolveModuleName calls of the last callback
  lifecycle,                      \* where the dual context is between construction and Ready
  tsModule,                       \* VueTypescriptLanguageService.tsModule
  initCount,                      \* the number of runs of init that reached the engines
  templateLanguageService,        \* identity of the template engine instance
  builtOver,                      \* what each engine instance was created over
  disposed                        \* the script engine instances dispose() was called on

vars == <<sharedFileInfoMap, virtualVueTemplateFileInfoMap, versions, scriptDocs, files,
          currentScriptDoc, jsLanguageService, config, pc, request, engineLog, result,
          engineAnswer, lastUpdate, lastCall, disk, resolveLog, lifecycle, tsModule,
          initCount, templateLanguageService, builtOver, disposed>>

registryVars == <<sharedFileInfoMap, virtualVueTemplateFileInfoMap>>
serviceVars == <<versions, scriptDocs, files, currentScriptDoc, jsLanguageService, lastUpdate,
                 builtOver, disposed>>
contextVars == <<lifecycle, tsModule, initCount, templateLanguageService>>

----------------------------------------------------------------------------
(* Bounds of the model *)

\* host documents arrive with versions 1..MaxDocVersion
MaxDocVersion == 2
\* a path's counter in `versions` is bumped at most up to this value
MaxVersionCounter == 2

----------------------------------------------------------------------------
(* Values *)

\* ts.ScriptKind, the two kinds the registry is given
ScriptKinds == {"JS", "TS"}

\* uris of the host documents the editor sends
HostUris == {<<"file://", "/a", ".vue">>, <<"file://", "/b", ".vue">>}

\* the text of a host document at a version: every edit changes the text
TextAtVersion(version) ==
  IF version % 2 = 1
  THEN "<template>{{m}}</template><script>x</script>"
  ELSE "<template>{{n}}</template><script lang='ts'>y</script>"

\* the absent TextDocument (undefined)
NoDoc == [uri |-> <<>>, languageId |-> "", version |-> 0, text |-> ""]

HostDocument(uri, version) ==
  [uri |-> uri, languageId |-> "vue", version |-> version, text |-> TextAtVersion(version)]

\* the host documents the editor sends: every version of /a.vue, one of /b.vue
HostDocuments ==
  {HostDocument(<<"file://", "/a", ".vue">>, v) : v \in 1..MaxDocVersion}
    \cup {HostDocument(<<"file://", "/b", ".vue">>, 1)}

\* the host documents of the VueInterpolationMode requests
RequestDocuments == {d \in HostDocuments : d.uri = <<"file://", "/a", ".vue">>}

\* bridge.fileName
bridgeFileName == <<"vue-temp/vue-editor-bridge", ".ts">>

\* String.prototype.endsWith on token sequences
EndsWith(s, suffix) ==
  /\ Len(s) >= Len(suffix)
  /\ SubSeq(s, Len(s) - Len(suffix) + 1, Len(s)) = suffix

\* util.ts
isVueFile(path) == EndsWith(path, <<".vue">>)
isVirtualVueFile(path) == EndsWith(path, <<".vue", ".ts">>)
isVirtualVueTemplateFile(path) == EndsWith(path, <<".vue", ".template">>)

\* utils/paths.ts: the file system path of a uri (the scheme is dropped)
getFileFsPath(uri) == Tail(uri)
getFilePath(uri) == Tail(uri)

\* the file names addScript and the host callbacks are called with
FileNames ==
  {getFileFsPath(u) : u \in HostUris}
    \cup {Append(getFileFsPath(u), ".template") : u \in HostUris}
    \cup {<<"/a", ".vue", ".ts">>, <<"/src/util", ".ts">>, bridgeFileName}

\* Map.prototype.set / object property assignment
MapSet(m, k, v) == [x \in (DOMAIN m) \cup {k} |-> IF x = k THEN v ELSE m[x]]

\* a set as a sequence, in a fixed enumeration order
RECURSIVE SetToSeq(_)
SetToSeq(S) ==
  IF S = {} THEN <<>>
  ELSE LET x == CHOOSE y \in S : TRUE IN <<x>> \o SetToSeq(S \ {x})

Range(s) == {s[i] : i \in DOMAIN s}

----------------------------------------------------------------------------
(* VueFileInfoManager *)

\* new VueFileInfoManager(tsModule): the bridge file is registered
InitialSharedFileInfoMap ==
  [f \in {bridgeFileName} |-> [fileName |-> bridgeFileName, version |-> "0", kind |-> "TS"]]

\* getFiles without its test of includeVirtualVueFiles: both maps for every host
getFilesOfBothMaps(includeVirtualVueFiles) ==
  SetToSeq(DOMAIN sharedFileInfoMap) \o SetToSeq(DOMAIN virtualVueTemplateFileInfoMap)

\* Object.keys of both maps; the key order inside one map is abstracted
getFiles(includeVirtualVueFiles) ==
  IF includeVirtualVueFiles
  THEN SetToSeq(DOMAIN sharedFileInfoMap) \o SetToSeq(DOMAIN virtualVueTemplateFileInfoMap)
  ELSE SetToSeq(DOMAIN sharedFileInfoMap)

getScriptVersionDefaultOne(fileName) ==
  IF fileName \in DOMAIN sharedFileInfoMap THEN sharedFileInfoMap[fileName].version
  ELSE IF fileName \in DOMAIN virtualVueTemplateFileInfoMap
       THEN virtualVueTemplateFileInfoMap[fileName].version
       ELSE "1"

getScriptVersion(fileName) ==
  IF fileName \in DOMAIN sharedFileInfoMap THEN sharedFileInfoMap[fileName].version
  ELSE IF fileName \in DOMAIN virtualVueTemplateFileInfoMap
       THEN virtualVueTemplateFileInfoMap[fileName].version
       ELSE "0"

\* getScriptKind with the other kind as its default
getScriptKindDefaultTS(fileName) ==
  IF fileName \in DOMAIN sharedFileInfoMap THEN sharedFileInfoMap[fileName].kind
  ELSE IF fileName \in DOMAIN virtualVueTemplateFileInfoMap
       THEN virtualVueTemplateFileInfoMap[fileName].kind
       ELSE "TS"

getScriptKind(fileName) ==
  IF fileName \in DOMAIN sharedFileInfoMap THEN sharedFileInfoMap[fileName].kind
  ELSE IF fileName \in DOMAIN virtualVueTemplateFileInfoMap
       THEN virtualVueTemplateFileInfoMap[fileName].kind
       ELSE "JS"

\* addScript without the presence tests: an existing entry is overwritten
addScriptOverwrite(fileName, kind) ==
  /\ sharedFileInfoMap' =
       IF isVueFile(fileName) \/ isVirtualVueFile(fileName)
       THEN MapSet(sharedFileInfoMap, fileName,
                   [fileName |-> fileName, version |-> "0", kind |-> kind])
       ELSE sharedFileInfoMap
  /\ virtualVueTemplateFileInfoMap' =
       IF isVirtualVueTemplateFile(fileName)
       THEN MapSet(virtualVueTemplateFileInfoMap, fileName,
                   [fileName |-> fileName, version |-> "0", kind |-> kind])
       ELSE virtualVueTemplateFileInfoMap

\* addScript without the name test of its first insertion: every absent name goes into
\* the persistent map
addScriptEveryNameShared(fileName, kind) ==
  /\ sharedFileInfoMap' =
       IF fileName \notin DOMAIN sharedFileInfoMap
       THEN MapSet(sharedFileInfoMap, fileName,
                   [fileName |-> fileName, version |-> "0", kind |-> kind])
       ELSE sharedFileInfoMap
  /\ virtualVueTemplateFileInfoMap' =
       IF /\ isVirtualVueTemplateFile(fileName)
          /\ fileName \notin DOMAIN virtualVueTemplateFileInfoMap
       THEN MapSet(virtualVueTemplateFileInfoMap, fileName,
                   [fileName |-> fileName, version |-> "0", kind |-> kind])
       ELSE virtualVueTemplateFileInfoMap

\* addScript keeping one .vue.template entry only: a new one replaces the map
addScriptSingleTransient(fileName, kind) ==
  /\ sharedFileInfoMap' =
       IF /\ isVueFile(fileName) \/ isVirtualVueFile(fileName)
          /\ fileName \notin DOMAIN sharedFileInfoMap
       THEN MapSet(sharedFileInfoMap, fileName,
                   [fileName |-> fileName, version |-> "0", kind |-> kind])
       ELSE sharedFileInfoMap
  /\ virtualVueTemplateFileInfoMap' =
       IF /\ isVirtualVueTemplateFile(fileName)
          /\ fileName \notin DOMAIN virtualVueTemplateFileInfoMap
       THEN [f \in {fileName} |-> [fileName |-> fileName, version |-> "0", kind |-> kind]]
       ELSE virtualVueTemplateFileInfoMap

addScript(fileName, kind) ==
  /\ sharedFileInfoMap' =
       IF /\ isVueFile(fileName) \/ isVirtualVueFile(fileName)
          /\ fileName \notin DOMAIN sharedFileInfoMap
       THEN MapSet(sharedFileInfoMap, fileName,
                   [fileName |-> fileName, version |-> "0", kind |-> kind])
       ELSE sharedFileInfoMap
  /\ virtualVueTemplateFileInfoMap' =
       IF /\ isVirtualVueTemplateFile(fileName)
          /\ fileName \notin DOMAIN virtualVueTemplateFileInfoMap
       THEN MapSet(virtualVueTemplateFileInfoMap, fileName,
                   [fileName |-> fileName, version |-> "0", kind |-> kind])
       ELSE virtualVueTemplateFileInfoMap

----------------------------------------------------------------------------
(* Collaborators of the host: document regions, file system, bridge *)

\* embeddedSupport: the script region of a host text ('' when it has none)
ScriptRegion(text) ==
  CASE text = "<template>{{m}}</template><script>x</script>" -> "x"
    [] text = "<template>{{n}}</template><script lang='ts'>y</script>" -> "y"
    [] OTHER -> ""

\* embeddedSupport: the languageId of the script region
ScriptLanguageId(text) ==
  IF text = "<template>{{n}}</template><script lang='ts'>y</script>"
  THEN "typescript" ELSE "javascript"

\* the files of the workspace the requests run in
WorkspaceDisk ==
  (<<"/a", ".vue">> :> "<template>{{m}}</template><script>x</script>")
    @@ (<<"/src/util", ".ts">> :> "export const u = 1")

\* the file system contents the host callbacks are checked under
Disks ==
  { WorkspaceDisk,
    <<>>,
    (<<"/a", ".vue">> :> "<template>{{m}}</template>")
      @@ (<<"/b", ".vue">> :> "<template>{{n}}</template><script lang='ts'>y</script>")
      @@ (<<"/src/util", ".ts">> :> "export const u = 1")
      @@ (<<"/node_modules/vue-editor-bridge", ".ts">> :> "export const local = 1") }

\* tsModule.sys.readFile: the files on disk; "undefined" for a file that cannot be read
sysReadFile(path) == IF path \in DOMAIN disk THEN disk[path] ELSE "undefined"

\* tsModule.sys.fileExists
sysFileExists(path) == path \in DOMAIN disk

\* vueSys.fileExists: a .vue.ts path exists when its .vue file does
vueSysFileExists(path) ==
  \/ path \in DOMAIN disk
  \/ isVirtualVueFile(path) /\ SubSeq(path, 1, Len(path) - 1) \in DOMAIN disk

\* isUsingOldVueVersion(tsModule, workspacePath): fixed for one workspace
isOldVersion == TRUE

\* Uri.file(fileName).fsPath
getNormalizedFileFsPath(fileName) == getFileFsPath(<<"file://">> \o fileName)

\* parseVueScript without its placeholder: the script region as it is
parseVueScriptWithoutPlaceholder(text) == ScriptRegion(text)

parseVueScript(text) ==
  LET script == ScriptRegion(text)
  IN IF script = "" THEN "export default {};" ELSE script

\* the text of the snapshot the host hands to the engine
getScriptSnapshot(fileName) ==
  IF fileName = bridgeFileName
  THEN (IF isOldVersion THEN "bridge.oldContent" ELSE "bridge.content")
  ELSE LET normalizedFileFsPath == getNormalizedFileFsPath(fileName)
           hasDoc == normalizedFileFsPath \in DOMAIN scriptDocs
           read == sysReadFile(normalizedFileFsPath)
           fileText == IF hasDoc THEN scriptDocs[normalizedFileFsPath].text
                       ELSE IF read = "undefined" THEN "" ELSE read
       IN IF ~hasDoc /\ isVueFile(fileName) THEN parseVueScript(fileText) ELSE fileText

----------------------------------------------------------------------------
(* VueTypescriptLanguageService *)

\* versions.get(path) || 0
versionsGet(path) == IF path \in DOMAIN versions THEN versions[path] ELSE 0

\* jsDocuments.get(doc): the script region of doc as a document of its own
jsDocumentsGet(doc) ==
  [uri |-> doc.uri, languageId |-> ScriptLanguageId(doc.text),
   version |-> doc.version, text |-> ScriptRegion(doc.text)]

\* whether updateCurrentTextDocument(doc) stores the document and bumps the counter
updateStores(doc) ==
  \/ isVirtualVueTemplateFile(getFileFsPath(doc.uri))
  \/ currentScriptDoc = NoDoc
  \/ doc.uri # currentScriptDoc.uri
  \/ doc.version # currentScriptDoc.version

\* the engine handles no change of a file's type: the test that is never true
languageIdNeverChanged(doc) == FALSE

\* lastDoc && currentScriptDoc.languageId !== lastDoc.languageId
languageIdChanged(doc) ==
  /\ getFileFsPath(doc.uri) \in DOMAIN scriptDocs
  /\ jsDocumentsGet(doc).languageId # scriptDocs[getFileFsPath(doc.uri)].languageId

\* a document registry, by the call that created it: createDocumentRegistry in init, or
\* the default of createLanguageService(host) when the call names no registry
DocumentRegistry(createdBy, n) == [createdBy |-> createdBy, n |-> n]

\* what an engine instance was created over: the document registry given to
\* createLanguageService, and the registry and scriptDocs its host was created with
BuiltOver(registry, manager) ==
  [registry |-> registry, vueFileInfoManager |-> manager, scriptDocs |-> "this.scriptDocs"]
NotBuilt == BuiltOver(DocumentRegistry("none", 0), 0)

\* no engine instance (undefined)
NoService == -1

updateCurrentTextDocument(doc) ==
  LET fileFsPath == getFileFsPath(doc.uri)
      filePath == getFilePath(doc.uri)
      isTemplate == isVirtualVueTemplateFile(fileFsPath)
      newScriptDoc == jsDocumentsGet(doc)
      stored == IF isTemplate THEN doc ELSE newScriptDoc
  IN /\ files' =
          IF /\ fileFsPath \notin DOMAIN scriptDocs
             /\ EndsWith(fileFsPath, <<".vue">>) \/ EndsWith(fileFsPath, <<".vue", ".template">>)
          THEN files \cup {filePath}
          ELSE files
     /\ IF updateStores(doc)
        THEN /\ scriptDocs' = MapSet(scriptDocs, fileFsPath, stored)
             /\ versions' = MapSet(versions, fileFsPath, versionsGet(fileFsPath) + 1)
        ELSE UNCHANGED <<scriptDocs, versions>>
     /\ currentScriptDoc' =
          IF ~isTemplate /\ updateStores(doc) THEN newScriptDoc ELSE currentScriptDoc
     /\ IF ~isTemplate /\ updateStores(doc) /\ languageIdChanged(doc)
        THEN /\ disposed' = disposed \cup {jsLanguageService}
             /\ jsLanguageService' = jsLanguageService + 1
             /\ builtOver' =
                  [builtOver EXCEPT !.script =
                     BuiltOver(DocumentRegistry("createLanguageService", jsLanguageService + 1),
                               builtOver.script.vueFileInfoManager)]
        ELSE UNCHANGED <<jsLanguageService, builtOver, disposed>>
     /\ lastUpdate' = MapSet(lastUpdate, fileFsPath, doc)

\* the counter bumped by updateCurrentTextDocument(doc) stays within the model's bound
WithinCounterBound(doc) ==
  updateStores(doc) => versionsGet(getFileFsPath(doc.uri)) < MaxVersionCounter

----------------------------------------------------------------------------
(* createLanguageServiceHost: module resolution *)

\* bridge.moduleName
bridgeModuleName == <<"vue-editor-bridge">>

\* the module names the engine asks the host to resolve
ModuleNames == {bridgeModuleName, <<"./b", ".vue">>, <<"/b", ".vue">>, <<"./util">>}

\* the files the imports are in
ContainingFiles == {<<"/a", ".vue">>, <<"/src/util", ".ts">>}

\* the name lists of one resolveModuleNames call have at most this many names
MaxModuleNames == 2

ModuleNameLists == UNION {[1..n -> ModuleNames] : n \in 1..MaxModuleNames}

\* path.isAbsolute
isAbsolute(name) == name[1] = "/b"

\* a module the underlying algorithm did not resolve (resolvedModule is undefined)
NoModule == [resolvedFileName |-> <<>>, extension |-> "undefined"]

\* path.resolve(path.dirname(containingFile), name), for the first token of a name;
\* a name that is neither relative nor absolute is looked up under node_modules
resolvedHead(head, containingFile) ==
  LET inSrc == containingFile[1] = "/src/util"
  IN CASE head = "./b" -> (IF inSrc THEN "/src/b" ELSE "/b")
       [] head = "./util" -> (IF inSrc THEN "/src/util" ELSE "/util")
       [] head = "vue-editor-bridge" -> "/node_modules/vue-editor-bridge"
       [] OTHER -> head

\* tsModule.resolveModuleName(name, containingFile, options, sys).resolvedModule: the
\* .ts file the name stands for, when the given sys says it exists
tsResolveModuleName(name, containingFile, sys) ==
  LET candidate == <<resolvedHead(name[1], containingFile)>> \o Tail(name) \o <<".ts">>
      exists == IF sys = "vueSys" THEN vueSysFileExists(candidate)
                ELSE sysFileExists(candidate)
  IN IF exists THEN [resolvedFileName |-> candidate, extension |-> "Ts"] ELSE NoModule

\* a call of tsModule.resolveModuleName, as the log records it
Consult(name, sys) == [name |-> name, sys |-> sys]

\* the extension of the script of a .vue file, from the languageId of its document
extensionOf(languageId) ==
  IF languageId = "typescript" THEN "Ts" ELSE IF languageId = "tsx" THEN "Tsx" ELSE "Js"

\* the callback of moduleNames.map without its test for the bridge module
resolveModuleNameWithoutBridgeTest(name, containingFile) ==
  IF isAbsolute(name) \/ ~isVueFile(name)
  THEN [module |-> tsResolveModuleName(name, containingFile, "sys"),
        consulted |-> <<Consult(name, "sys")>>]
  ELSE LET resolved == tsResolveModuleName(name, containingFile, "vueSys")
           consulted == <<Consult(name, "vueSys")>>
       IN IF resolved = NoModule THEN [module |-> NoModule, consulted |-> consulted]
          ELSE IF ~EndsWith(resolved.resolvedFileName, <<".vue", ".ts">>)
          THEN [module |-> resolved, consulted |-> consulted]
          ELSE LET resolvedFileName == SubSeq(resolved.resolvedFileName, 1,
                                              Len(resolved.resolvedFileName) - 1)
                   read == sysReadFile(resolvedFileName)
                   languageId ==
                     IF resolvedFileName \in DOMAIN scriptDocs
                     THEN scriptDocs[resolvedFileName].languageId
                     ELSE ScriptLanguageId(IF read = "undefined" THEN "" ELSE read)
               IN [module |-> [resolvedFileName |-> resolvedFileName,
                               extension |-> extensionOf(languageId)],
                   consulted |-> consulted]

\* the callback of moduleNames.map: the module one name resolves to, and the calls of
\* tsModule.resolveModuleName made for it
resolveModuleName(name, containingFile) ==
  IF name = bridgeModuleName
  THEN [module |-> [resolvedFileName |-> bridgeFileName, extension |-> "Ts"],
        consulted |-> <<>>]
  ELSE IF isAbsolute(name) \/ ~isVueFile(name)
  THEN [module |-> tsResolveModuleName(name, containingFile, "sys"),
        consulted |-> <<Consult(name, "sys")>>]
  ELSE LET resolved == tsResolveModuleName(name, containingFile, "vueSys")
           consulted == <<Consult(name, "vueSys")>>
       IN IF resolved = NoModule THEN [module |-> NoModule, consulted |-> consulted]
          ELSE IF ~EndsWith(resolved.resolvedFileName, <<".vue", ".ts">>)
          THEN [module |-> resolved, consulted |-> consulted]
          ELSE LET resolvedFileName == SubSeq(resolved.resolvedFileName, 1,
                                              Len(resolved.resolvedFileName) - 1)
                   read == sysReadFile(resolvedFileName)
                   languageId ==
                     IF resolvedFileName \in DOMAIN scriptDocs
                     THEN scriptDocs[resolvedFileName].languageId
                     ELSE ScriptLanguageId(IF read = "undefined" THEN "" ELSE read)
               IN [module |-> [resolvedFileName |-> resolvedFileName,
                               extension |-> extensionOf(languageId)],
                   consulted |-> consulted]

\* the longest prefix of the names up to the first one that does not resolve
RECURSIVE ResolvedPrefix(_, _)
ResolvedPrefix(moduleNames, containingFile) ==
  IF moduleNames = <<>> THEN <<>>
  ELSE LET module == resolveModuleName(Head(moduleNames), containingFile).module
       IN IF module = NoModule THEN <<>>
          ELSE <<module>> \o ResolvedPrefix(Tail(moduleNames), containingFile)

\* resolveModuleNames giving up at the first name that does not resolve
resolveModuleNamesUntilUnresolved(moduleNames, containingFile) ==
  ResolvedPrefix(moduleNames, containingFile)

\* resolveModuleNames(moduleNames, containingFile): moduleNames.map(...)
resolveModuleNames(moduleNames, containingFile) ==
  [i \in 1..Len(moduleNames) |-> resolveModuleName(moduleNames[i], containingFile).module]

\* the calls of tsModule.resolveModuleName during resolveModuleNames, in order
RECURSIVE resolveConsults(_, _)
resolveConsults(moduleNames, containingFile) ==
  IF moduleNames = <<>> THEN <<>>
  ELSE resolveModuleName(Head(moduleNames), containingFile).consulted
         \o resolveConsults(Tail(moduleNames), containingFile)

----------------------------------------------------------------------------
(* VueInterpolationMode *)

\* the values configure(c) leaves at vetur.experimental.templateInterpolationService
ConfigValues == {"undefined", "true", "false"}

Ops == {"doValidation", "doHover", "findDefinition", "findReferences", "getCodeActions"}
PositionOps == {"doHover", "findDefinition", "findReferences", "getCodeActions"}

\* request positions are 0..MaxPosition
MaxPosition == 1
Positions == 0..MaxPosition

\* the offset of a query that takes none, and the offset `undefined`
NoOffset == -2
UndefinedOffset == -1

\* the SourceMap of the template: request position -> offset in the synthetic file;
\* a position outside its domain has no entry
templateSourceMap == [p \in {1} |-> 3]

\* sourceMap.ts: the offsets a position translates to; a position without an entry
\* yields no offset of the synthetic text (undefined, or the default 0)
mapFromPositionToOffset(position) ==
  IF position \in DOMAIN templateSourceMap
  THEN {templateSourceMap[position]}
  ELSE {UndefinedOffset, 0}

\* the flag test of every handler, dropped: the feature counts as always enabled
templateInterpolationAlwaysEnabled == TRUE

\* _.get(this.config, ['vetur', 'experimental', 'templateInterpolationService'], true)
templateInterpolationEnabled == config # "false"

\* TextDocument.create(document.uri + '.template', languageId, version, text)
templateDocOf(document) ==
  [uri |-> Append(document.uri, ".template"), languageId |-> document.languageId,
   version |-> document.version, text |-> document.text]

\* javascript.ts: the file is one of the root files of the service's program,
\* which are the host's getScriptFileNames()
languageServiceIncludesFile(includeVirtualVueFiles, filePath) ==
  filePath \in Range(getFiles(includeVirtualVueFiles))

NoCall == [op |-> "none", fileName |-> <<>>, kind |-> "", position |-> 0, present |-> FALSE,
           includeVirtualVueFiles |-> FALSE, moduleNames |-> <<>>, uri |-> <<>>]
NoResult == [status |-> "none", value |-> <<>>, engineThrew |-> FALSE]
Pending == [status |-> "pending", value |-> <<>>, engineThrew |-> FALSE]
Returned(v) == [status |-> "returned", value |-> v, engineThrew |-> FALSE]
\* no handler catches: an exception of the engine leaves the handler as an exception
Threw == [status |-> "threw", value |-> <<>>, engineThrew |-> TRUE]

Query(q, fileName, offset) == [query |-> q, fileName |-> fileName, offset |-> offset]

NavigationOps == {"findDefinition", "findReferences"}

\* a ts.DefinitionInfo / ts.ReferenceEntry: the file and the text span of a result
Span(fileName, start, length) == [fileName |-> fileName, start |-> start, length |-> length]

\* what the first query of a handler returns: undefined (no info, no definitions), or
\* something, which for the navigation queries is a list of spans and for
\* getSemanticDiagnostics a list of diagnostics
Answer(defined, spans) == [defined |-> defined, spans |-> spans]
NoAnswer == [answer |-> Answer(FALSE, <<>>), programDefined |-> FALSE]

\* the spans templateService answers a navigation query with: in the template file of
\* the request, in a file of the workspace, in a file the program has no source file of
SpanLists(templateFileFsPath) ==
  LET inTemplate == Span(templateFileFsPath, 3, 0)
      inWorkspace == Span(<<"/src/util", ".ts">>, 13, 1)
      inNoSourceFile == Span(<<"/gone", ".ts">>, 0, 0)
  IN {<<>>, <<inTemplate>>, <<inWorkspace>>, <<inTemplate, inWorkspace>>,
      <<inNoSourceFile, inTemplate>>}

\* a ts.Diagnostic of the template file: its text span, code, category and message,
\* which is a chain of message texts
Diagnostic(start, length, code, category, messageText) ==
  [start |-> start, length |-> length, code |-> code, category |-> category,
   messageText |-> messageText]

\* the lists templateService.getSemanticDiagnostics answers with: always an array; the
\* diagnostics are of any category, at an offset the SourceMap has or has not
DiagnosticLists ==
  LET mapped == Diagnostic(3, 0, 2339, "Error", <<"Property 'm' does not exist">>)
      unmapped == Diagnostic(5, 1, 6133, "Warning", <<"'n' is declared", "but never used">>)
  IN {<<>>, <<mapped>>, <<mapped, unmapped>>, <<unmapped, mapped>>}

EngineAnswers(op, templateFileFsPath) ==
  IF op \in NavigationOps
  THEN {Answer(FALSE, <<>>)} \cup {Answer(TRUE, spans) : spans \in SpanLists(templateFileFsPath)}
  ELSE IF op = "doValidation"
       THEN {Answer(TRUE, diagnostics) : diagnostics \in DiagnosticLists}
       ELSE {Answer(FALSE, <<>>), Answer(TRUE, <<>>)}

\* doValidation asking for the syntactic diagnostics of the template file as well
plannedQueriesWithSyntacticDiagnostics(op, fileName, offset, answer) ==
  CASE op = "doValidation" -> <<Query("getSyntacticDiagnostics", fileName, NoOffset),
                                Query("getSemanticDiagnostics", fileName, NoOffset)>>
    [] op = "doHover" -> <<Query("getQuickInfoAtPosition", fileName, offset)>>
    [] op = "findDefinition" ->
         <<Query("getDefinitionAtPosition", fileName, offset)>>
           \o (IF answer.defined THEN <<Query("getProgram", <<>>, NoOffset)>> ELSE <<>>)
    [] op = "findReferences" ->
         <<Query("getReferencesAtPosition", fileName, offset)>>
           \o (IF answer.defined THEN <<Query("getProgram", <<>>, NoOffset)>> ELSE <<>>)
    [] op = "getCodeActions" ->
         <<Query("getCodeFixesAtPosition", fileName, offset),
           Query("getApplicableRefactors", fileName, offset)>>

\* the templateService queries a handler makes after the inclusion test, in order,
\* when none of them throws; `answer` is what the first one returns
plannedQueries(op, fileName, offset, answer) ==
  CASE op = "doValidation" -> <<Query("getSemanticDiagnostics", fileName, NoOffset)>>
    [] op = "doHover" -> <<Query("getQuickInfoAtPosition", fileName, offset)>>
    [] op = "findDefinition" ->
         <<Query("getDefinitionAtPosition", fileName, offset)>>
           \o (IF answer.defined THEN <<Query("getProgram", <<>>, NoOffset)>> ELSE <<>>)
    [] op = "findReferences" ->
         <<Query("getReferencesAtPosition", fileName, offset)>>
           \o (IF answer.defined THEN <<Query("getProgram", <<>>, NoOffset)>> ELSE <<>>)
    [] op = "getCodeActions" ->
         <<Query("getCodeFixesAtPosition", fileName, offset),
           Query("getApplicableRefactors", fileName, offset)>>

\* a vscode Position; the host documents and the files are single lines
Position(character) == [line |-> 0, character |-> character]

\* TextDocument.positionAt(offset): the offset is clamped to the text
positionAt(document, offset) ==
  Position(IF offset < 0 THEN 0
           ELSE IF offset > Len(document.text) THEN Len(document.text) ELSE offset)

\* sourceMap.ts: the host position a synthetic offset comes from (backward translation
\* through the SourceMap); an offset without an entry is clipped to the start
mapBackOffset(offset) ==
  IF \E p \in DOMAIN templateSourceMap : templateSourceMap[p] = offset
  THEN Position(CHOOSE p \in DOMAIN templateSourceMap : templateSourceMap[p] = offset)
  ELSE Position(0)

\* sourceMap.ts: mapBackRange(templateDoc, span, templateSourceMap)
mapBackRange(span) ==
  [start |-> mapBackOffset(span.start), end |-> mapBackOffset(span.start + span.length)]

\* the files templateService's program has a source file of: the root files of the
\* lenient host and the files on disk its imports reach
programHasSourceFile(fileName) ==
  fileName \in Range(getFiles(TRUE)) \/ fileName \in DOMAIN disk

\* getSourceDoc(fileName, program), for a file the program has a source file of
getSourceDoc(fileName) ==
  [uri |-> fileName, languageId |-> "vue", version |-> 0, text |-> getScriptSnapshot(fileName)]

\* convertRange(document, span)
convertRange(document, span) ==
  [start |-> positionAt(document, span.start),
   end |-> positionAt(document, span.start + span.length)]

\* the callback of forEach with the test of r.fileName dropped: every result is
\* taken for one of another file
locationOfOtherFile(r, templateFileFsPath, documentUri) ==
  [uri |-> getSourceDoc(r.fileName).uri, range |-> convertRange(getSourceDoc(r.fileName), r)]

\* the Location the callback of definitions.forEach / references.forEach pushes for r
locationOf(r, templateFileFsPath, documentUri) ==
  IF r.fileName = templateFileFsPath
  THEN [uri |-> documentUri, range |-> mapBackRange(r)]
  ELSE [uri |-> getSourceDoc(r.fileName).uri, range |-> convertRange(getSourceDoc(r.fileName), r)]

\* getSourceDoc dereferences program.getSourceFile(fileName) untested: a result of a
\* file without a source file makes the handler throw a TypeError
ThrewTypeError == [status |-> "threw", value |-> <<>>, engineThrew |-> FALSE]

\* what findDefinition / findReferences return from the engine's answer
navigationResult(answer, programDefined, templateFileFsPath, documentUri) ==
  IF ~answer.defined \/ ~programDefined THEN Returned(<<>>)
  ELSE IF \E i \in DOMAIN answer.spans :
            /\ answer.spans[i].fileName # templateFileFsPath
            /\ ~programHasSourceFile(answer.spans[i].fileName)
       THEN ThrewTypeError
       ELSE Returned([i \in DOMAIN answer.spans |->
                       locationOf(answer.spans[i], templateFileFsPath, documentUri)])

\* ts.flattenDiagnosticMessageText(messageText, '\n'): the texts of the chain, a
\* newline between one and the next
RECURSIVE flattenDiagnosticMessageText(_)
flattenDiagnosticMessageText(messageText) ==
  IF Len(messageText) <= 1 THEN messageText
  ELSE <<Head(messageText), "\n">> \o flattenDiagnosticMessageText(Tail(messageText))

\* the Diagnostic the callback of rawTemplateDiagnostics.map makes of diag
diagnosticOf(diag) ==
  [range |-> mapBackRange(diag),
   severity |-> "Error",
   message |-> flattenDiagnosticMessageText(diag.messageText),
   code |-> diag.code,
   source |-> "Vetur"]

\* what doValidation returns from the engine's diagnostics
validationResult(answer) ==
  Returned([i \in DOMAIN answer.spans |-> diagnosticOf(answer.spans[i])])

\* what the handler returns from the engine's answer
handlerValue(answer) == IF answer.defined THEN <<"item">> ELSE <<>>

\* the handler's result when no query of the engine threw
handlerResult(op, answer, programDefined, templateFileFsPath, documentUri) ==
  IF op \in NavigationOps
  THEN navigationResult(answer, programDefined, templateFileFsPath, documentUri)
  ELSE IF op = "doValidation" THEN validationResult(answer)
       ELSE Returned(handlerValue(answer))

\* the handler after the inclusion test: the offset the position translates to, the
\* queries it makes until one throws (throwAt; 0: none throws), and its result
AskEngine ==
  \E offset \in (IF request.op \in PositionOps
                  THEN mapFromPositionToOffset(request.position) ELSE {NoOffset}),
     answer \in EngineAnswers(request.op, request.fileName),
     programDefined \in BOOLEAN :
    LET planned == plannedQueries(request.op, request.fileName, offset, answer)
    IN /\ programDefined \/ (request.op \in NavigationOps /\ answer.defined)
       /\ \E throwAt \in 0..Len(planned) :
            /\ engineLog' = engineLog \o
                 (IF throwAt = 0 THEN planned ELSE SubSeq(planned, 1, throwAt))
            /\ result' = IF throwAt = 0
                         THEN handlerResult(request.op, answer, programDefined,
                                            request.fileName, request.uri)
                         ELSE Threw
            /\ engineAnswer' = [answer |-> answer, programDefined |-> programDefined]

----------------------------------------------------------------------------
(* Actions *)

InitOn(files_on_disk) ==
  /\ sharedFileInfoMap = InitialSharedFileInfoMap
  /\ virtualVueTemplateFileInfoMap = <<>>
  /\ versions = <<>>
  /\ scriptDocs = <<>>
  /\ files = {}
  /\ currentScriptDoc = NoDoc
  /\ jsLanguageService = 0
  /\ config = "undefined"
  /\ pc = "idle"
  /\ request = NoCall
  /\ engineLog = <<>>
  /\ result = NoResult
  /\ lastUpdate = <<>>
  /\ lastCall = NoCall
  /\ engineAnswer = NoAnswer
  /\ disk = files_on_disk
  /\ resolveLog = <<>>
  /\ lifecycle = "Ready"
  /\ tsModule = "module"
  /\ initCount = 1
  /\ templateLanguageService = 0
  /\ builtOver = [script |-> BuiltOver(DocumentRegistry("init", 1), 1),
                  template |-> BuiltOver(DocumentRegistry("init", 1), 1)]
  /\ disposed = {}

\* the service after init, in the workspace of the requests
Init == InitOn(WorkspaceDisk)

\* the service after init, in each workspace the host callbacks are checked under
InitHost == \E d \in Disks : InitOn(d)

\* an Error thrown with a message
ThrewError(message) == [status |-> "threw", value |-> <<message>>, engineThrew |-> FALSE]

\* what dependencyService.getDependency('typescript') gives: a dependency in the state
\* Loaded, one in another state, none; and a missing dependencyService
DependencyStates == {"Loaded", "Unloaded", "absent"}
InitDependencyStates == DependencyStates \cup {"noService"}

\* init runs at most this many times up to the engines
MaxInits == 2

\* the state before new TypescriptService(...): no service object, nothing initialised
InitLifecycle ==
  /\ sharedFileInfoMap = <<>>
  /\ virtualVueTemplateFileInfoMap = <<>>
  /\ versions = <<>>
  /\ scriptDocs = <<>>
  /\ files = {}
  /\ currentScriptDoc = NoDoc
  /\ jsLanguageService = NoService
  /\ config = "undefined"
  /\ pc = "idle"
  /\ request = NoCall
  /\ engineLog = <<>>
  /\ result = NoResult
  /\ lastUpdate = <<>>
  /\ lastCall = NoCall
  /\ engineAnswer = NoAnswer
  /\ disk = WorkspaceDisk
  /\ resolveLog = <<>>
  /\ lifecycle = "Unconstructed"
  /\ tsModule = "undefined"
  /\ initCount = 0
  /\ templateLanguageService = NoService
  /\ builtOver = [script |-> NotBuilt, template |-> NotBuilt]
  /\ disposed = {}

\* new TypescriptService(dependencyService, workspacePath, jsDocuments): throws unless
\* the dependency is Loaded; else constructs the VueTypescriptLanguageService, whose
\* constructor takes nothing and initialises nothing; init is not called
NewTypescriptService(dependency) ==
  /\ pc = "idle"
  /\ lifecycle = "Unconstructed"
  /\ lastCall' = [NoCall EXCEPT !.op = "new TypescriptService", !.kind = dependency]
  /\ IF dependency = "Loaded"
     THEN lifecycle' = "Uninitialized" /\ result' = Returned(<<>>)
     ELSE lifecycle' = lifecycle /\ result' = ThrewError("Failed to load TypeScript module")
  /\ pc' = "done"
  /\ UNCHANGED <<registryVars, serviceVars, tsModule, initCount, templateLanguageService,
                 config, request, engineLog, engineAnswer, disk, resolveLog>>

\* init(dependencyService, workspacePath) up to patchTS: the dependency test, which
\* a missing dependencyService skips, leaving tsModule as it was
BeginInit(dependency) ==
  /\ pc = "idle"
  /\ lifecycle # "Unconstructed"
  /\ initCount < MaxInits
  /\ lastCall' = [NoCall EXCEPT !.op = "init", !.kind = dependency]
  /\ IF dependency \in {"Unloaded", "absent"}
     THEN /\ result' = ThrewError("Failed to load TS service")
          /\ pc' = "done"
          /\ UNCHANGED <<lifecycle, tsModule>>
     ELSE IF dependency = "noService" /\ tsModule = "undefined"
     THEN /\ result' = ThrewTypeError
          /\ pc' = "done"
          /\ UNCHANGED <<lifecycle, tsModule>>
     ELSE /\ tsModule' = "module"
          /\ lifecycle' = "Initializing"
          /\ result' = Pending
          /\ pc' = "initializing"
  /\ UNCHANGED <<registryVars, serviceVars, initCount, templateLanguageService,
                 config, request, engineLog, engineAnswer, disk, resolveLog>>

\* the rest of init: the local currentScriptDoc, the options, the document registry,
\* a new VueFileInfoManager, both hosts and both engines
FinishInit ==
  /\ pc = "initializing"
  /\ currentScriptDoc' = NoDoc
  /\ sharedFileInfoMap' = InitialSharedFileInfoMap
  /\ virtualVueTemplateFileInfoMap' = <<>>
  /\ initCount' = initCount + 1
  /\ jsLanguageService' = jsLanguageService + 1
  /\ templateLanguageService' = templateLanguageService + 1
  /\ builtOver' =
       [script |-> BuiltOver(DocumentRegistry("init", initCount + 1), initCount + 1),
        template |-> BuiltOver(DocumentRegistry("init", initCount + 1), initCount + 1)]
  /\ lifecycle' = "Ready"
  /\ result' = Returned(<<>>)
  /\ pc' = "done"
  /\ UNCHANGED <<versions, scriptDocs, files, lastUpdate, disposed, tsModule, config,
                 request, engineLog, engineAnswer, lastCall, disk, resolveLog>>

\* VueInterpolationMode.configure(c)
Configure(c) ==
  /\ pc = "idle"
  /\ config' = c
  /\ request' = NoCall
  /\ lastCall' = NoCall
  /\ engineLog' = <<>>
  /\ result' = NoResult
  /\ UNCHANGED <<registryVars, serviceVars, pc, contextVars, disk, resolveLog, engineAnswer>>

\* VueFileInfoManager.addScript(fileName, kind)
AddScript(fileName, kind) ==
  /\ pc = "idle"
  /\ addScript(fileName, kind)
  /\ lastCall' = [NoCall EXCEPT !.op = "addScript", !.fileName = fileName, !.kind = kind,
                                !.present = fileName \in (DOMAIN sharedFileInfoMap)
                                              \cup (DOMAIN virtualVueTemplateFileInfoMap)]
  /\ request' = NoCall
  /\ engineLog' = <<>>
  /\ result' = NoResult
  /\ pc' = "done"
  /\ UNCHANGED <<serviceVars, config, contextVars, disk, resolveLog, engineAnswer>>

\* the host callback getScriptVersion(fileName)
GetScriptVersion(fileName) ==
  /\ pc = "idle"
  /\ lastCall' = [NoCall EXCEPT !.op = "getScriptVersion", !.fileName = fileName]
  /\ result' = Returned(<<getScriptVersion(fileName)>>)
  /\ pc' = "done"
  /\ request' = NoCall
  /\ engineLog' = <<>>
  /\ UNCHANGED <<registryVars, serviceVars, config, contextVars, disk, resolveLog, engineAnswer>>

\* the host callback getScriptFileNames() of the host built with includeVirtualVueFiles
GetScriptFileNames(includeVirtualVueFiles) ==
  /\ pc = "idle"
  /\ lastCall' = [NoCall EXCEPT !.op = "getScriptFileNames",
                                !.includeVirtualVueFiles = includeVirtualVueFiles]
  /\ result' = Returned(getFiles(includeVirtualVueFiles))
  /\ pc' = "done"
  /\ request' = NoCall
  /\ engineLog' = <<>>
  /\ UNCHANGED <<registryVars, serviceVars, config, contextVars, disk, resolveLog, engineAnswer>>

\* the host callback getScriptKind(fileName)
GetScriptKind(fileName) ==
  /\ pc = "idle"
  /\ lastCall' = [NoCall EXCEPT !.op = "getScriptKind", !.fileName = fileName]
  /\ result' = Returned(<<getScriptKind(fileName)>>)
  /\ pc' = "done"
  /\ request' = NoCall
  /\ engineLog' = <<>>
  /\ UNCHANGED <<registryVars, serviceVars, config, contextVars, disk, resolveLog, engineAnswer>>

\* getScriptSnapshot keeping the text it read as the document of the file
GetScriptSnapshotStoringDocument(fileName) ==
  /\ pc = "idle"
  /\ lastCall' = [NoCall EXCEPT !.op = "getScriptSnapshot", !.fileName = fileName]
  /\ result' = Returned(<<getScriptSnapshot(fileName)>>)
  /\ scriptDocs' = MapSet(scriptDocs, getNormalizedFileFsPath(fileName),
                          [uri |-> <<"file://">> \o fileName, languageId |-> "vue",
                           version |-> 0, text |-> getScriptSnapshot(fileName)])
  /\ pc' = "done"
  /\ request' = NoCall
  /\ engineLog' = <<>>
  /\ UNCHANGED <<registryVars, versions, files, currentScriptDoc, jsLanguageService,
                 builtOver, disposed, lastUpdate, config, contextVars, disk, resolveLog, engineAnswer>>

\* the host callback getScriptSnapshot(fileName)
GetScriptSnapshot(fileName) ==
  /\ pc = "idle"
  /\ lastCall' = [NoCall EXCEPT !.op = "getScriptSnapshot", !.fileName = fileName]
  /\ result' = Returned(<<getScriptSnapshot(fileName)>>)
  /\ pc' = "done"
  /\ request' = NoCall
  /\ engineLog' = <<>>
  /\ UNCHANGED <<registryVars, serviceVars, config, contextVars, disk, resolveLog, engineAnswer>>

\* the host callback resolveModuleNames(moduleNames, containingFile) of the host built
\* with includeVirtualVueFiles
ResolveModuleNames(moduleNames, containingFile, includeVirtualVueFiles) ==
  /\ pc = "idle"
  /\ lastCall' = [NoCall EXCEPT !.op = "resolveModuleNames", !.fileName = containingFile,
                                !.moduleNames = moduleNames,
                                !.includeVirtualVueFiles = includeVirtualVueFiles]
  /\ result' = Returned(resolveModuleNames(moduleNames, containingFile))
  /\ resolveLog' = resolveConsults(moduleNames, containingFile)
  /\ pc' = "done"
  /\ request' = NoCall
  /\ engineLog' = <<>>
  /\ UNCHANGED <<registryVars, serviceVars, config, contextVars, disk, engineAnswer>>

\* updateCurrentTextDocument(doc) for the script of a host document
UpdateScriptDocument(doc) ==
  /\ pc = "idle"
  /\ WithinCounterBound(doc)
  /\ updateCurrentTextDocument(doc)
  /\ lastCall' = NoCall
  /\ request' = NoCall
  /\ engineLog' = <<>>
  /\ result' = NoResult
  /\ UNCHANGED <<registryVars, config, pc, contextVars, disk, resolveLog, engineAnswer>>

\* a handler up to and including its call of updateCurrentTextDocument
BeginRequest(op, document, position) ==
  /\ pc = "idle"
  /\ op \in PositionOps \/ position = 0
  /\ request' = [NoCall EXCEPT !.op = op,
                               !.fileName = getFileFsPath(templateDocOf(document).uri),
                               !.position = position,
                               !.uri = document.uri]
  /\ lastCall' = NoCall
  /\ engineLog' = <<>>
  /\ IF ~templateInterpolationEnabled
     THEN /\ result' = Returned(<<>>)
          /\ pc' = "done"
          /\ UNCHANGED <<registryVars, serviceVars, config, contextVars, disk, resolveLog, engineAnswer>>
     ELSE /\ WithinCounterBound(templateDocOf(document))
          /\ updateCurrentTextDocument(templateDocOf(document))
          /\ result' = Pending
          /\ pc' = "updated"
          /\ UNCHANGED <<registryVars, config, contextVars, disk, resolveLog, engineAnswer>>

\* the handler's test languageServiceIncludesFile(templateService, templateDoc.uri)
CheckIncluded ==
  /\ pc = "updated"
  /\ engineLog' = Append(engineLog, Query("getProgram", <<>>, NoOffset))
  /\ \E threw \in BOOLEAN :
       IF threw
       THEN result' = Threw /\ pc' = "done"
       ELSE IF languageServiceIncludesFile(TRUE, request.fileName)
            THEN pc' = "included" /\ UNCHANGED result
            ELSE result' = Returned(<<>>) /\ pc' = "done"
  /\ UNCHANGED <<registryVars, serviceVars, config, request, lastCall, contextVars, disk, resolveLog, engineAnswer>>

\* the handler with its update of the counter moved behind the engine's queries
QueryEngineThenUpdate ==
  /\ pc = "included"
  /\ AskEngine
  /\ versions' = MapSet(versions, request.fileName, versionsGet(request.fileName) + 1)
  /\ pc' = "done"
  /\ UNCHANGED <<registryVars, scriptDocs, files, currentScriptDoc, jsLanguageService,
                 builtOver, disposed, lastUpdate, config, request, lastCall, contextVars, disk, resolveLog>>

\* the rest of the handler: position translation, the engine's queries, the result
QueryEngine ==
  /\ pc = "included"
  /\ AskEngine
  /\ pc' = "done"
  /\ UNCHANGED <<registryVars, serviceVars, config, request, lastCall, contextVars, disk, resolveLog>>

\* the caller has taken the result (or the exception); the next call can start
Return ==
  /\ pc = "done"
  /\ pc' = "idle"
  /\ request' = NoCall
  /\ engineLog' = <<>>
  /\ result' = NoResult
  /\ lastCall' = NoCall
  /\ resolveLog' = <<>>
  /\ engineAnswer' = NoAnswer
  /\ UNCHANGED <<registryVars, serviceVars, config, contextVars, disk>>

\* the file names the requests make the engine ask for
RequestFileNames == {getFileFsPath(templateDocOf(d).uri) : d \in RequestDocuments}

Next ==
  \/ \E c \in ConfigValues : Configure(c)
  \/ \E fileName \in RequestFileNames, kind \in ScriptKinds : AddScript(fileName, kind)
  \/ \E doc \in HostDocuments : UpdateScriptDocument(doc)
  \/ \E op \in Ops, document \in RequestDocuments, position \in Positions :
       BeginRequest(op, document, position)
  \/ CheckIncluded
  \/ QueryEngine
  \/ Return

\* the registry alone, under every call of its interface
NextRegistry ==
  \/ \E fileName \in FileNames, kind \in ScriptKinds : AddScript(fileName, kind)
  \/ \E fileName \in FileNames : GetScriptVersion(fileName)
  \/ \E includeVirtualVueFiles \in BOOLEAN : GetScriptFileNames(includeVirtualVueFiles)
  \/ \E fileName \in FileNames : GetScriptKind(fileName)
  \/ Return

\* the file names addScript is given where the host callbacks are checked
HostFileNames == RequestFileNames \cup {<<"/a", ".vue">>}

\* the host documents opened where the host callbacks are checked
HostCallbackDocuments == {d \in HostDocuments : d.version = 1}

\* the host alone: registrations and document updates, and between them every callback
\* the engine makes on either host
NextHost ==
  \/ \E fileName \in HostFileNames, kind \in ScriptKinds : AddScript(fileName, kind)
  \/ \E doc \in HostCallbackDocuments : UpdateScriptDocument(doc)
  \/ \E includeVirtualVueFiles \in BOOLEAN : GetScriptFileNames(includeVirtualVueFiles)
  \/ \E fileName \in FileNames : GetScriptVersion(fileName)
  \/ \E fileName \in FileNames : GetScriptKind(fileName)
  \/ \E fileName \in FileNames : GetScriptSnapshot(fileName)
  \/ \E moduleNames \in ModuleNameLists, containingFile \in ContainingFiles,
        includeVirtualVueFiles \in BOOLEAN :
       ResolveModuleNames(moduleNames, containingFile, includeVirtualVueFiles)
  \/ Return

\* construction and init, and once the context is Ready the registrations and the
\* updates of the documents of the requests
NextLifecycle ==
  \/ \E dependency \in DependencyStates : NewTypescriptService(dependency)
  \/ \E dependency \in InitDependencyStates : BeginInit(dependency)
  \/ FinishInit
  \/ lifecycle = "Ready"
       /\ \E fileName \in RequestFileNames, kind \in ScriptKinds : AddScript(fileName, kind)
  \/ lifecycle = "Ready" /\ \E doc \in RequestDocuments : UpdateScriptDocument(doc)
  \/ Return

Spec == Init /\ [][Next]_vars

SpecLifecycle == InitLifecycle /\ [][NextLifecycle]_vars

SpecHost == InitHost /\ [][NextHost]_vars

SpecRegistry == Init /\ [][NextRegistry]_vars

----------------------------------------------------------------------------
(* Properties *)

\* the number a version string stands for
VersionNumber(version) == CHOOSE n \in 0..9 : ToString(n) = version

\* the files of the registry as the lenient (TRUE) or the strict (FALSE) host lists them
ListedFiles(includeVirtualVueFiles) == Range(getFiles(includeVirtualVueFiles))

\* this step is the start of a VueInterpolationMode request
RequestStep == pc = "idle" /\ request'.op \in Ops

\* C1 (version monotonicity): when updateCurrentTextDocument is called for a path with
\* a document version above the one of the previous call for that path, the version
\* getScriptVersion returns for the path after the call is above the one before it.
C1_VersionMonotonicity ==
  [][\A path \in DOMAIN lastUpdate :
       lastUpdate'[path].version > lastUpdate[path].version
         => VersionNumber(getScriptVersion(path)') > VersionNumber(getScriptVersion(path))]_vars

\* C2 (version tracks content): whenever a step changes the text getScriptSnapshot
\* returns for a file name, it changes the version getScriptVersion returns for it.
C2_VersionTracksContent ==
  [][\A fileName \in FileNames :
       getScriptSnapshot(fileName)' # getScriptSnapshot(fileName)
         => getScriptVersion(fileName)' # getScriptVersion(fileName)]_vars

\* C3 (no-op updates keep the version): a call of updateCurrentTextDocument with the
\* document (same uri, version and text) of the previous call for that path leaves the
\* path's counter in `versions` unchanged; so the counter of a path changes only in
\* steps that change the document last given for the path.
C3_NoOpUpdateKeepsVersion ==
  [][\A path \in DOMAIN lastUpdate :
       lastUpdate'[path] = lastUpdate[path] => versionsGet(path)' = versionsGet(path)]_vars

\* C4 (mutate-before-query ordering): inside a request, a step that has issued a query
\* to templateService, or follows one, changes neither the registry nor the version
\* counters nor scriptDocs; the step that calls updateCurrentTextDocument issues none.
C4_MutateBeforeQuery ==
  [][((pc # "idle" \/ pc' # "idle") /\ engineLog' # <<>>)
       => UNCHANGED <<registryVars, versions, scriptDocs>>]_vars

\* a findDefinition request that updated the document, then queried the engine three
\* times (program for the inclusion test, definitions, program) and returned
C4_Witness ==
  /\ pc = "done"
  /\ request.op = "findDefinition"
  /\ request.fileName \in DOMAIN versions
  /\ Len(engineLog) = 3
  /\ result.status = "returned"

\* C5 (disabled-feature short-circuit): a request started while the flag is false
\* returns the empty result at once, issues no templateService query and changes
\* nothing of the registry and of the service (updateCurrentTextDocument is not called).
C5_DisabledShortCircuit ==
  [][(RequestStep /\ config = "false")
       => /\ result' = Returned(<<>>)
          /\ pc' = "done"
          /\ engineLog' = <<>>
          /\ UNCHANGED <<registryVars, serviceVars>>]_vars

\* a request answered while the flag is false, after an earlier update of its document
C5_Witness ==
  /\ config = "false"
  /\ pc = "done"
  /\ request.op = "getCodeActions"
  /\ request.fileName \in DOMAIN scriptDocs
  /\ result = Returned(<<>>)
  /\ engineLog = <<>>

\* C6 (engine exceptions are contained): a request during which a templateService
\* query threw returns its empty result, not the exception.
C6_EngineExceptionContained ==
  (pc = "done" /\ result.engineThrew) => (result.status = "returned" /\ result.value = <<>>)

\* C7 (unmapped-position safety): doHover, findDefinition and findReferences at a
\* position without an entry in the SourceMap return the empty result and query the
\* engine at no offset (stated for the requests during which the engine threw nothing).
C7_UnmappedPositionSafety ==
  (/\ pc = "done"
   /\ request.op \in {"doHover", "findDefinition", "findReferences"}
   /\ request.position \notin DOMAIN templateSourceMap
   /\ ~result.engineThrew)
    => /\ \A i \in DOMAIN engineLog : engineLog[i].offset = NoOffset
       /\ result.status = "returned"
       /\ result.value = <<>>

\* C8 (lazy registration): a path updateCurrentTextDocument was called for is listed by
\* the lenient host, and a .vue.template path is not listed by the strict host.
C8_LazyRegistration ==
  \A path \in DOMAIN lastUpdate :
    /\ path \in ListedFiles(TRUE)
    /\ isVirtualVueTemplateFile(path) => path \notin ListedFiles(FALSE)

\* C9 (register is idempotent): addScript for a file name already in the registry
\* changes neither map, and no addScript changes the version of an existing entry.
C9_AddScriptIdempotent ==
  [][(pc = "idle" /\ lastCall'.op = "addScript")
       => /\ lastCall'.fileName \in (DOMAIN sharedFileInfoMap)
                                      \cup (DOMAIN virtualVueTemplateFileInfoMap)
               => UNCHANGED registryVars
          /\ \A f \in DOMAIN sharedFileInfoMap :
               /\ f \in DOMAIN sharedFileInfoMap'
               /\ sharedFileInfoMap'[f].version = sharedFileInfoMap[f].version
          /\ \A f \in DOMAIN virtualVueTemplateFileInfoMap :
               /\ f \in DOMAIN virtualVueTemplateFileInfoMap'
               /\ virtualVueTemplateFileInfoMap'[f].version
                    = virtualVueTemplateFileInfoMap[f].version]_vars

\* addScript was called for a registered .vue.template name with another kind than
\* the stored one, while the persistent map holds a .vue file too
C9_Witness ==
  /\ lastCall.op = "addScript"
  /\ lastCall.present
  /\ lastCall.fileName \in DOMAIN virtualVueTemplateFileInfoMap
  /\ lastCall.kind # getScriptKind(lastCall.fileName)
  /\ \E f \in DOMAIN sharedFileInfoMap : isVueFile(f)

\* C10 (versionOf defaults to "0"): getScriptVersion returns the version stored in the
\* persistent map, else the one stored in the transient map, else "0".
C10_VersionOfDefault ==
  lastCall.op = "getScriptVersion"
    => LET f == lastCall.fileName
           v == result.value[1]
       IN IF f \in DOMAIN sharedFileInfoMap THEN v = sharedFileInfoMap[f].version
          ELSE IF f \in DOMAIN virtualVueTemplateFileInfoMap
               THEN v = virtualVueTemplateFileInfoMap[f].version
               ELSE v = "0"

\* getScriptVersion was asked for a name in neither map and answered "0", while both
\* maps hold entries
C10_Witness ==
  /\ lastCall.op = "getScriptVersion"
  /\ lastCall.fileName \notin (DOMAIN sharedFileInfoMap)
                               \cup (DOMAIN virtualVueTemplateFileInfoMap)
  /\ result.value = <<"0">>
  /\ Cardinality(DOMAIN sharedFileInfoMap) > 1
  /\ virtualVueTemplateFileInfoMap # <<>>

\* C11 (context file views): the strict host lists exactly the entries of the persistent
\* map, which are the bridge file, .vue and .vue.ts files and never a .vue.template
\* file; the lenient host lists exactly those plus the entries of the transient map,
\* which are .vue.template files, each name once; a name given to addScript is listed
\* by the hosts its suffix selects, and getScriptFileNames returns these lists.
C11_ContextFileViews ==
  /\ ListedFiles(FALSE) = DOMAIN sharedFileInfoMap
  /\ ListedFiles(TRUE) = (DOMAIN sharedFileInfoMap) \cup (DOMAIN virtualVueTemplateFileInfoMap)
  /\ Len(getFiles(TRUE)) = Cardinality(ListedFiles(TRUE))
  /\ \A f \in DOMAIN sharedFileInfoMap :
       /\ f = bridgeFileName \/ isVueFile(f) \/ isVirtualVueFile(f)
       /\ ~isVirtualVueTemplateFile(f)
  /\ \A f \in DOMAIN virtualVueTemplateFileInfoMap : isVirtualVueTemplateFile(f)
  /\ \A f \in ListedFiles(FALSE) : f \in ListedFiles(TRUE) /\ ~isVirtualVueTemplateFile(f)
  /\ lastCall.op = "addScript" =>
       LET f == lastCall.fileName
       IN /\ (isVueFile(f) \/ isVirtualVueFile(f)) => f \in ListedFiles(FALSE)
          /\ isVirtualVueTemplateFile(f)
               => f \in ListedFiles(TRUE) /\ f \notin ListedFiles(FALSE)
          /\ ~(isVueFile(f) \/ isVirtualVueFile(f) \/ isVirtualVueTemplateFile(f))
               => (f \in ListedFiles(TRUE) <=> f = bridgeFileName)
  /\ lastCall.op = "getScriptFileNames" =>
       Range(result.value) =
         (DOMAIN sharedFileInfoMap)
           \cup (IF lastCall.includeVirtualVueFiles
                 THEN DOMAIN virtualVueTemplateFileInfoMap ELSE {})

\* the strict host was asked for its files while the persistent map holds a .vue and a
\* .vue.ts file beside the bridge file and the transient map holds a .vue.template file
C11_Witness ==
  /\ lastCall.op = "getScriptFileNames"
  /\ ~lastCall.includeVirtualVueFiles
  /\ \E f \in DOMAIN sharedFileInfoMap : isVueFile(f)
  /\ \E f \in DOMAIN sharedFileInfoMap : isVirtualVueFile(f)
  /\ virtualVueTemplateFileInfoMap # <<>>
  /\ Len(result.value) = Cardinality(DOMAIN sharedFileInfoMap)

\* C12 (kindOf): a call of getScriptKind returns TS for the bridge file; for another
\* name the kind stored in the persistent map, else the one stored in the transient
\* map, else JS; it returns (never throws) and leaves both maps unchanged.
C12_KindOf ==
  [][lastCall'.op = "getScriptKind"
       => LET f == lastCall'.fileName
              k == result'.value[1]
          IN /\ result'.status = "returned"
             /\ IF f = bridgeFileName THEN k = "TS"
                ELSE IF f \in DOMAIN sharedFileInfoMap THEN k = sharedFileInfoMap[f].kind
                ELSE IF f \in DOMAIN virtualVueTemplateFileInfoMap
                     THEN k = virtualVueTemplateFileInfoMap[f].kind
                     ELSE k = "JS"
             /\ UNCHANGED registryVars]_vars

\* getScriptKind was asked for a name in neither map and answered JS, while the
\* persistent map holds a TS entry beside the bridge file and the transient map a TS entry
C12_Witness ==
  /\ lastCall.op = "getScriptKind"
  /\ lastCall.fileName \notin (DOMAIN sharedFileInfoMap)
                               \cup (DOMAIN virtualVueTemplateFileInfoMap)
  /\ result.value = <<"JS">>
  /\ \E f \in DOMAIN sharedFileInfoMap : f # bridgeFileName /\ sharedFileInfoMap[f].kind = "TS"
  /\ \E f \in DOMAIN virtualVueTemplateFileInfoMap :
       virtualVueTemplateFileInfoMap[f].kind = "TS"

\* the callbacks the engine invokes on a host during a query
HostCallbacks ==
  {"getScriptFileNames", "getScriptVersion", "getScriptKind", "getScriptSnapshot",
   "resolveModuleNames"}

\* the module the bridge module name resolves to
bridgeModule == [resolvedFileName |-> bridgeFileName, extension |-> "Ts"]

\* C13 (bridging module resolution): whatever the containing file, the registry,
\* scriptDocs and the disk hold, resolveModuleNames of either host returns, at every
\* position where the name is the bridge module name, the bridge file name with the Ts
\* extension, and makes no call of tsModule.resolveModuleName for that name.
C13_BridgeModuleResolution ==
  (pc = "done" /\ lastCall.op = "resolveModuleNames")
    => /\ result.status = "returned"
       /\ \A i \in DOMAIN lastCall.moduleNames :
            lastCall.moduleNames[i] = bridgeModuleName
              => i \in DOMAIN result.value /\ result.value[i] = bridgeModule
       /\ \A j \in DOMAIN resolveLog : resolveLog[j].name # bridgeModuleName

\* the lenient host resolved a .vue import and the bridge module name for a file under
\* /src, with a document open and a vue-editor-bridge module present under node_modules
C13_Witness ==
  /\ pc = "done"
  /\ lastCall.op = "resolveModuleNames"
  /\ lastCall.includeVirtualVueFiles
  /\ lastCall.fileName = <<"/src/util", ".ts">>
  /\ lastCall.moduleNames = << <<"./b", ".vue">>, bridgeModuleName >>
  /\ <<"/node_modules/vue-editor-bridge", ".ts">> \in DOMAIN disk
  /\ scriptDocs # <<>>
  /\ Len(resolveLog) = 1
  /\ result.value[2] = bridgeModule

\* C14 (unresolvable imports are non-fatal): resolveModuleNames returns, without an
\* error, one entry per name in the order of the names; each entry is what its name
\* resolves to alone, and it is the unresolved entry exactly when the name is not the
\* bridge module name and the underlying algorithm yields nothing for it.
C14_UnresolvableImportsNonFatal ==
  (pc = "done" /\ lastCall.op = "resolveModuleNames")
    => LET names == lastCall.moduleNames
           containingFile == lastCall.fileName
       IN /\ result.status = "returned"
          /\ Len(result.value) = Len(names)
          /\ \A i \in DOMAIN names :
               /\ result.value[i] = resolveModuleName(names[i], containingFile).module
               /\ result.value[i] = NoModule
                    <=> /\ names[i] # bridgeModuleName
                        /\ tsResolveModuleName(
                             names[i], containingFile,
                             IF isAbsolute(names[i]) \/ ~isVueFile(names[i])
                             THEN "sys" ELSE "vueSys") = NoModule

\* a call whose first name did not resolve and whose second name, not the bridge
\* module name, resolved
C14_Witness ==
  /\ pc = "done"
  /\ lastCall.op = "resolveModuleNames"
  /\ Len(lastCall.moduleNames) = 2
  /\ lastCall.moduleNames[2] # bridgeModuleName
  /\ Len(result.value) = 2
  /\ result.value[1] = NoModule
  /\ result.value[2] # NoModule

\* C20 (host callbacks are read-only): a call of getScriptFileNames, getScriptVersion,
\* getScriptKind, getScriptSnapshot or resolveModuleNames changes neither map of the
\* registry (no entry added, no version or kind changed), nor scriptDocs, nor the
\* version counters; so the callbacks of one query all read the same registry.
C20_HostCallbacksReadOnly ==
  [][lastCall'.op \in HostCallbacks
       => UNCHANGED <<sharedFileInfoMap, virtualVueTemplateFileInfoMap, scriptDocs, versions>>]_vars

\* getScriptSnapshot answered for a .vue file that is on disk but has no document,
\* while both maps of the registry and scriptDocs hold entries
C20_Witness ==
  /\ pc = "done"
  /\ lastCall.op = "getScriptSnapshot"
  /\ isVueFile(lastCall.fileName)
  /\ lastCall.fileName \in DOMAIN disk
  /\ lastCall.fileName \notin DOMAIN scriptDocs
  /\ result.value = <<"x">>
  /\ scriptDocs # <<>>
  /\ Cardinality(DOMAIN sharedFileInfoMap) > 1
  /\ virtualVueTemplateFileInfoMap # <<>>

\* a navigation request that got spans and a program from the engine, no query throwing
NavigationAnswered ==
  /\ pc = "done"
  /\ request.op \in NavigationOps
  /\ ~result.engineThrew
  /\ engineAnswer.answer.defined
  /\ engineAnswer.programDefined

\* C15 (result identity in navigation): when findDefinition or findReferences returns,
\* it returns one location per span of the engine, in order; for a span in the
\* request's .template file the location carries the uri of the host document and the
\* span translated back through the SourceMap; for a span in another file it carries
\* that file's path and the range computed from that file's text; no location carries
\* the path of the request's .template file.
C15_NavigationResultIdentity ==
  (NavigationAnswered /\ result.status = "returned")
    => LET spans == engineAnswer.answer.spans
       IN /\ Len(result.value) = Len(spans)
          /\ \A i \in DOMAIN spans :
               LET r == spans[i]
                   location == result.value[i]
               IN /\ IF r.fileName = request.fileName
                     THEN /\ location.uri = request.uri
                          /\ location.range = mapBackRange(r)
                     ELSE /\ location.uri = r.fileName
                          /\ location.range =
                               [start |-> positionAt([text |-> getScriptSnapshot(r.fileName)],
                                                     r.start),
                                end |-> positionAt([text |-> getScriptSnapshot(r.fileName)],
                                                   r.start + r.length)]
                  /\ location.uri # request.fileName
                  /\ getFileFsPath(location.uri) # request.fileName

\* findDefinition returned two locations: the host document at the position the span
\* of the template file maps back to, and /src/util.ts at the span's own offsets
C15_Witness ==
  /\ NavigationAnswered
  /\ request.op = "findDefinition"
  /\ result.status = "returned"
  /\ Len(result.value) = 2
  /\ result.value[1] = [uri |-> <<"file://", "/a", ".vue">>,
                        range |-> [start |-> Position(1), end |-> Position(1)]]
  /\ result.value[2] = [uri |-> <<"/src/util", ".ts">>,
                        range |-> [start |-> Position(13), end |-> Position(14)]]

\* C18 (unresolvable result files are dropped): when the engine's answer to
\* findDefinition or findReferences holds a span of a file, other than the request's
\* template file, that the program has no source file of, the handler returns (it does
\* not throw) the locations of the other spans, in order.
C18_UnresolvableResultsDropped ==
  NavigationAnswered
    => LET spans == engineAnswer.answer.spans
           kept == SelectSeq(spans, LAMBDA r : r.fileName = request.fileName
                                                 \/ programHasSourceFile(r.fileName))
       IN /\ result.status = "returned"
          /\ Len(result.value) = Len(kept)
          /\ \A i \in DOMAIN kept :
               result.value[i].uri = (IF kept[i].fileName = request.fileName
                                      THEN request.uri ELSE kept[i].fileName)

\* C16 (script-engine hot-swap): an update of a script document whose languageId
\* differs from the one stored for its file replaces the script engine instance, on
\* which dispose() is called; a step that replaces it leaves both maps of the registry
\* unchanged, bumps the counter of the updated file by one as every update does and
\* leaves the other counters unchanged, keeps the template engine instance, and leaves
\* the context Ready, init not having run again.
C16_ScriptEngineHotSwap ==
  [][/\ \A path \in DOMAIN scriptDocs :
          (/\ ~isVirtualVueTemplateFile(path)
           /\ path \in DOMAIN lastUpdate'
           /\ path \in DOMAIN lastUpdate => lastUpdate'[path] # lastUpdate[path]
           /\ ScriptLanguageId(lastUpdate'[path].text) # scriptDocs[path].languageId)
            => jsLanguageService' # jsLanguageService
     /\ jsLanguageService' # jsLanguageService
          => /\ jsLanguageService \in disposed'
             /\ jsLanguageService' \notin disposed'
             /\ UNCHANGED registryVars
             /\ \E path \in DOMAIN versions :
                  versions' = [versions EXCEPT ![path] = versions[path] + 1]
             /\ templateLanguageService' = templateLanguageService
             /\ lifecycle = "Ready" /\ lifecycle' = "Ready"
             /\ initCount' = initCount]_vars

\* the script engine was replaced after /a.vue went from javascript to typescript,
\* with a .vue.template file registered and the counter of /a.vue at 2
C16_Witness ==
  /\ jsLanguageService = 1
  /\ disposed = {0}
  /\ <<"/a", ".vue">> \in DOMAIN scriptDocs
  /\ scriptDocs[<<"/a", ".vue">>].languageId = "typescript"
  /\ versionsGet(<<"/a", ".vue">>) = 2
  /\ virtualVueTemplateFileInfoMap # <<>>
  /\ templateLanguageService = 0
  /\ lifecycle = "Ready"

\* C17 (initialization lifecycle): the context only moves from nothing constructed to
\* Uninitialized, from Uninitialized to Initializing and from Initializing to Ready;
\* a construction or an init whose TypeScript dependency is not a Loaded one throws
\* and leaves the lifecycle and both engines as they were; in Ready both engine
\* instances exist.
C17_InitializationLifecycle ==
  [][/\ lifecycle' # lifecycle
          => <<lifecycle, lifecycle'>> \in {<<"Unconstructed", "Uninitialized">>,
                                           <<"Uninitialized", "Initializing">>,
                                           <<"Initializing", "Ready">>}
     /\ (/\ pc = "idle"
         /\ lastCall'.op \in {"new TypescriptService", "init"}
         /\ lastCall'.kind # "Loaded")
          => /\ result'.status = "threw"
             /\ lifecycle' = lifecycle
             /\ UNCHANGED <<jsLanguageService, templateLanguageService>>
     /\ lifecycle' = "Ready"
          => jsLanguageService' # NoService /\ templateLanguageService' # NoService]_vars

\* C19 (both engines share one document registry): once the context is Ready, the
\* script engine and the template engine are created over the same document registry,
\* the same VueFileInfoManager and the same scriptDocs map.
C19_SharedDocumentRegistry ==
  lifecycle = "Ready"
    => /\ builtOver.script.registry = builtOver.template.registry
       /\ builtOver.script.vueFileInfoManager = builtOver.template.vueFileInfoManager
       /\ builtOver.script.scriptDocs = builtOver.template.scriptDocs

\* C21 (register routing by name pattern): addScript on a file name in neither map
\* inserts an entry with version "0" and the given kind into the persistent map exactly
\* when the name ends in .vue or .vue.ts, into the transient map exactly when it ends in
\* .vue.template, and changes neither map for any other name; one call never inserts
\* the same name into both maps.
C21_AddScriptRouting ==
  [][(pc = "idle" /\ lastCall'.op = "addScript" /\ ~lastCall'.present)
       => LET f == lastCall'.fileName
              entry == [fileName |-> f, version |-> "0", kind |-> lastCall'.kind]
              persistentName == EndsWith(f, <<".vue">>) \/ EndsWith(f, <<".vue", ".ts">>)
              transientName == EndsWith(f, <<".vue", ".template">>)
              insertedPersistent == f \in DOMAIN sharedFileInfoMap'
              insertedTransient == f \in DOMAIN virtualVueTemplateFileInfoMap'
          IN /\ insertedPersistent <=> persistentName
             /\ insertedTransient <=> transientName
             /\ ~(insertedPersistent /\ insertedTransient)
             /\ sharedFileInfoMap' = IF persistentName
                                     THEN MapSet(sharedFileInfoMap, f, entry)
                                     ELSE sharedFileInfoMap
             /\ virtualVueTemplateFileInfoMap' =
                  IF transientName
                  THEN MapSet(virtualVueTemplateFileInfoMap, f, entry)
                  ELSE virtualVueTemplateFileInfoMap]_vars

\* addScript was called with kind TS for a .vue.template name in neither map and the
\* name is now in the transient map only, while the persistent map holds a .vue and a
\* .vue.ts name
C21_Witness ==
  /\ lastCall.op = "addScript"
  /\ ~lastCall.present
  /\ lastCall.kind = "TS"
  /\ isVirtualVueTemplateFile(lastCall.fileName)
  /\ lastCall.fileName \in DOMAIN virtualVueTemplateFileInfoMap
  /\ virtualVueTemplateFileInfoMap[lastCall.fileName].kind = "TS"
  /\ lastCall.fileName \notin DOMAIN sharedFileInfoMap
  /\ \E g \in DOMAIN sharedFileInfoMap : isVueFile(g)
  /\ \E g \in DOMAIN sharedFileInfoMap : isVirtualVueFile(g)

\* C22 (script projection source): getScriptSnapshot returns the bridge content for the
\* bridge file; for a file with a document in scriptDocs the text of that document,
\* unchanged; for a .vue file without one the script region of the text on disk, or
\* 'export default {};' when that region is empty or the file cannot be read; it always
\* returns, and it leaves what it reads as it was, so that a second call in the same
\* state returns the same text.
C22_ScriptSnapshotSource ==
  [][(pc = "idle" /\ lastCall'.op = "getScriptSnapshot")
       => LET f == lastCall'.fileName
          IN /\ result'.status = "returned"
             /\ Len(result'.value) = 1
             /\ UNCHANGED <<scriptDocs, disk>>
             /\ f = bridgeFileName
                  => result'.value[1] \in {"bridge.oldContent", "bridge.content"}
             /\ (f # bridgeFileName /\ f \in DOMAIN scriptDocs)
                  => result'.value[1] = scriptDocs[f].text
             /\ (f # bridgeFileName /\ f \notin DOMAIN scriptDocs /\ EndsWith(f, <<".vue">>))
                  => result'.value[1] =
                       IF f \in DOMAIN disk /\ ScriptRegion(disk[f]) # ""
                       THEN ScriptRegion(disk[f])
                       ELSE "export default {};"]_vars

\* getScriptSnapshot was asked for a .vue file that has no document in scriptDocs and
\* whose text on disk has no script region, and returned the placeholder, while
\* scriptDocs holds the document of another file
C22_Witness ==
  /\ lastCall.op = "getScriptSnapshot"
  /\ isVueFile(lastCall.fileName)
  /\ lastCall.fileName \notin DOMAIN scriptDocs
  /\ lastCall.fileName \in DOMAIN disk
  /\ disk[lastCall.fileName] # ""
  /\ ScriptRegion(disk[lastCall.fileName]) = ""
  /\ result = Returned(<<"export default {};">>)
  /\ scriptDocs # <<>>

\* C23 (interpolation validation is semantic only): doValidation asks the engine for no
\* diagnostics but the semantic diagnostics of the template file, never for syntactic
\* ones; it returns one diagnostic per diagnostic of the engine, in the same order, each
\* with severity Error, the engine's code and the range translated back through the
\* SourceMap; when the lenient engine does not include the template file it returns
\* the empty list and has not asked for diagnostics.
C23_ValidationSemanticOnly ==
  (pc = "done" /\ request.op = "doValidation")
    => LET diagnosticQueries == {i \in DOMAIN engineLog : engineLog[i].query # "getProgram"}
           diagnostics == engineAnswer.answer.spans
       IN /\ \A i \in diagnosticQueries :
               engineLog[i] = Query("getSemanticDiagnostics", request.fileName, NoOffset)
          /\ Cardinality(diagnosticQueries) <= 1
          /\ (result.status = "returned" /\ diagnosticQueries # {})
               => /\ Len(result.value) = Len(diagnostics)
                  /\ \A i \in DOMAIN diagnostics :
                       /\ result.value[i].severity = "Error"
                       /\ result.value[i].code = diagnostics[i].code
                       /\ result.value[i].range.start = mapBackOffset(diagnostics[i].start)
                       /\ result.value[i].range.end
                            = mapBackOffset(diagnostics[i].start + diagnostics[i].length)
          /\ (~result.engineThrew /\ request.fileName \notin ListedFiles(TRUE))
               => /\ result = Returned(<<>>)
                  /\ diagnosticQueries = {}

\* doValidation got two diagnostics from the engine, the second a Warning at an offset
\* the SourceMap has no entry of, and returned two diagnostics
C23_Witness ==
  /\ pc = "done"
  /\ request.op = "doValidation"
  /\ result.status = "returned"
  /\ Len(engineAnswer.answer.spans) = 2
  /\ engineAnswer.answer.spans[2].category = "Warning"
  /\ engineAnswer.answer.spans[1].code # engineAnswer.answer.spans[2].code
  /\ Len(result.value) = 2
  /\ result.value[1].range.start = Position(1)
  /\ \E i \in DOMAIN engineLog : engineLog[i].query = "getSemanticDiagnostics"

\* the registry holds the bridge file as constructed, and no name twice
RegistryPartitioned ==
  /\ bridgeFileName \in DOMAIN sharedFileInfoMap
  /\ sharedFileInfoMap[bridgeFileName].version = "0"
  /\ sharedFileInfoMap[bridgeFileName].kind = "TS"
  /\ (DOMAIN sharedFileInfoMap) \cap (DOMAIN virtualVueTemplateFileInfoMap) = {}
  /\ Cardinality(Range(getFiles(TRUE))) = Len(getFiles(TRUE))

\* C24 (the registry only grows and stays partitioned): in every state of a
\* VueFileInfoManager the bridge file is in the persistent map with version "0" and
\* kind TS, the key sets of the persistent and the transient map are disjoint and
\* getFiles(true) lists no name twice; no operation removes an entry of either map.
C24_RegistryGrowsPartitioned ==
  [][/\ RegistryPartitioned
     /\ RegistryPartitioned'
     /\ DOMAIN sharedFileInfoMap \subseteq DOMAIN sharedFileInfoMap'
     /\ DOMAIN virtualVueTemplateFileInfoMap \subseteq DOMAIN virtualVueTemplateFileInfoMap']_vars

\* addScript has just added a second .vue.template name to the registry, whose
\* persistent map holds the bridge file, both .vue files and a .vue.ts file
C24_Witness ==
  /\ lastCall.op = "addScript"
  /\ ~lastCall.present
  /\ isVirtualVueTemplateFile(lastCall.fileName)
  /\ Cardinality(DOMAIN virtualVueTemplateFileInfoMap) = 2
  /\ Cardinality(DOMAIN sharedFileInfoMap) = 4
  /\ Len(getFiles(TRUE)) = 6

====
